---- MODULE Spec2Model ----
(***************************************************************************)
(* TelegramScraperQueue (src/app/scraper.py): one asyncio event loop, any  *)
(* number of producer coroutines calling the facade operations, the worker *)
(* coroutines created by start(), and callers of start() and stop().       *)
(* Every action is one run of a coroutine between two suspension points    *)
(* (an await that really yields to the event loop).                        *)
(***************************************************************************)
EXTENDS Integers, Sequences, FiniteSets, TLC

\* ------------------------------------------------------------------ bounds
NumProducers == 2      \* producer coroutines; each makes one facade call
MaxLifecycleCalls == 2 \* calls of start() and stop() by the application

Producers == 1..NumProducers
\* a task is the tuple put on the queue; they are numbered in queue.put order
Tasks == 1..NumProducers
\* every start() that completes creates one worker with asyncio.create_task
Workers == 1..(NumProducers + MaxLifecycleCalls)

VARIABLES
    running,        \* self.running
    worker_task,    \* self.worker_task: 0 is None, else the worker it refers to
    queue,          \* self.queue: the tasks put and not yet got, oldest first
    connected,      \* self.client.is_connected()
    fut,            \* per task, its asyncio.Future: [st, by]
    setCalls,       \* per task, how often set_result / set_exception was called
    outcome,        \* per task, how the await of task_func ended
    wpc,            \* per worker, where _process_queue is suspended
    wcur,           \* per worker, the task it got from the queue (0: none)
    wcancel,        \* per worker, cancel() was called and not yet delivered
    ppc,            \* per producer, where its _enqueue_task call is
    ptask,          \* per producer, the task it put (0: none)
    perr,           \* per producer, what its call raised ("none" if nothing)
    spc,            \* where the application's start() or stop() call is
                    \* ("idle": no call in progress)
    sawait,         \* the worker that stop() awaits (0: none)
    stopQueued,     \* the tasks sitting in the queue when stop() was called
    ncalls,         \* calls of start() and stop() the application has made
    lastCall,       \* the application's latest call: "none", "start", "stop"
    execs,          \* per task, how often task_func was called with it
    \* one call of _get_today_messages
    now,            \* datetime.now(tz=timezone.utc) at the call, in hours
    feed,           \* what client.iter_messages delivers, in its order
    fpos,           \* how many messages the async for has taken from feed
    messages,       \* messages["messages"]
    fpc,            \* "idle", "iterating", "returned", "raised"
    \* one call of _get_channel_id
    entity,         \* what client.get_entity(channel) returns
    cresult,        \* the returned (channel_id, username)
    cpc             \* "idle", "resolving", "returned", "raised"

vars == <<running, worker_task, queue, connected, fut, setCalls, outcome,
          wpc, wcur, wcancel, ppc, ptask, perr, spc, sawait,
          stopQueued, ncalls, lastCall, execs>>

workerVars == <<wpc, wcur, wcancel>>
producerVars == <<ppc, ptask, perr>>
lifeVars == <<spc, sawait, stopQueued, ncalls, lastCall>>
futVars == <<fut, setCalls, outcome>>
fetchVars == <<now, feed, fpos, messages, fpc>>
channelVars == <<entity, cresult, cpc>>
taskFuncVars == <<fetchVars, channelVars>>

\* ----------------------------------------------------------------- futures
NoFuture == [st |-> "none", by |-> 0]

\* asyncio.Future(): line 80
NewFuture == [st |-> "pending", by |-> 0]

\* faulty variant: the future is kept in one shared place, so the result goes
\* to the future made last
SetResultToLatest(f, t, src) ==
    LET pending == {u \in DOMAIN f : f[u].st = "pending"} IN
    IF pending = {} THEN f
    ELSE LET u == CHOOSE x \in pending : \A y \in pending : y <= x IN
         [f EXCEPT ![u] = [st |-> "result", by |-> src]]

\* future.set_result(result): line 64. A future that is already done raises
\* InvalidStateError and keeps its state.
SetResult(f, t, src) ==
    IF f[t].st = "pending" THEN [f EXCEPT ![t] = [st |-> "result", by |-> src]]
    ELSE f

\* faulty variant: the error is logged and the future is not told
SetExceptionDropped(f, t, src) == f

\* future.set_exception(e): line 67
SetException(f, t, src) ==
    IF f[t].st = "pending" THEN [f EXCEPT ![t] = [st |-> "exception", by |-> src]]
    ELSE f

Resolved(t) == fut[t].st \in {"result", "exception", "shutdown"}

\* ------------------------------------------------------------------- queue
\* the task numbered next by queue.put
NextTask == Cardinality({t \in Tasks : fut[t].st # "none"}) + 1

\* faulty variant: the tuple is put twice
QueuePutTwice(q, t) == Append(Append(q, t), t)

\* await self.queue.put(...): line 81 (the queue is unbounded: never suspends)
QueuePut(q, t) == Append(q, t)

\* what self.queue.get() returns and what it leaves: line 61
QueueFront(q) == Head(q)
\* faulty variant: get() hands out the oldest item and leaves it in the queue
QueueRestKeepsItem(q) == q
QueueRest(q) == Tail(q)

\* ------------------------------------------------------------------ workers
Finished(w) == wpc[w] = "done"
Live(w) == wpc[w] \notin {"none", "done"}
FreeWorker == CHOOSE w \in Workers : wpc[w] = "none" /\ \A v \in Workers : wpc[v] = "none" => w <= v

\* Python's None
None == "None"

\* no call of _get_today_messages is in progress
FetchIdle ==
    /\ now = 0
    /\ feed = <<>>
    /\ fpos = 0
    /\ messages = <<>>
    /\ fpc = "idle"

NoEntity == [id |-> 0, username |-> None, attrs |-> {}]
NoResult == [channel_id |-> 0, username |-> None]

\* no call of _get_channel_id is in progress
ChannelIdle ==
    /\ entity = NoEntity
    /\ cresult = NoResult
    /\ cpc = "idle"

\* __init__: lines 11-15
QueueInit ==
    /\ running = FALSE
    /\ worker_task = 0
    /\ queue = <<>>
    /\ connected = FALSE
    /\ fut = [t \in Tasks |-> NoFuture]
    /\ setCalls = [t \in Tasks |-> 0]
    /\ outcome = [t \in Tasks |-> "none"]
    /\ wpc = [w \in Workers |-> "none"]
    /\ wcur = [w \in Workers |-> 0]
    /\ wcancel = [w \in Workers |-> FALSE]
    /\ ppc = [p \in Producers |-> "idle"]
    /\ ptask = [p \in Producers |-> 0]
    /\ perr = [p \in Producers |-> "none"]
    /\ spc = "idle"
    /\ sawait = 0
    /\ stopQueued = {}
    /\ ncalls = 0
    /\ lastCall = "none"
    /\ execs = [t \in Tasks |-> 0]

Init ==
    /\ QueueInit
    /\ FetchIdle
    /\ ChannelIdle

\* ------------------------------------------------------- _process_queue
\* line 61: await self.queue.get(), and line 63 up to the first suspension of
\* task_func. An empty queue suspends the worker in get().
QueueGet(w) ==
    IF queue = <<>>
    THEN /\ wpc' = [wpc EXCEPT ![w] = "getting"]
         /\ wcur' = [wcur EXCEPT ![w] = 0]
         /\ UNCHANGED <<queue, execs>>
    ELSE /\ wpc' = [wpc EXCEPT ![w] = "executing"]
         /\ wcur' = [wcur EXCEPT ![w] = QueueFront(queue)]
         /\ queue' = QueueRest(queue)
         /\ execs' = [execs EXCEPT ![QueueFront(queue)] = @ + 1]

\* lines 45-49 and 60-63: one pass from the while test to the next suspension
ProcessQueueLoop(w) ==
    IF ~running
    THEN /\ wpc' = [wpc EXCEPT ![w] = "done"]
         /\ wcur' = [wcur EXCEPT ![w] = 0]
         /\ UNCHANGED <<queue, execs>>
    ELSE IF ~connected
    THEN /\ wpc' = [wpc EXCEPT ![w] = "connecting"]
         /\ wcur' = [wcur EXCEPT ![w] = 0]
         /\ UNCHANGED <<queue, execs>>
    ELSE QueueGet(w)

\* the event loop runs a worker created by create_task for the first time
WorkerFirstRun(w) ==
    /\ wpc[w] = "created"
    /\ ~wcancel[w]
    /\ ProcessQueueLoop(w)
    /\ UNCHANGED <<running, worker_task, connected, futVars, wcancel,
                   producerVars, lifeVars>>
    /\ UNCHANGED taskFuncVars

\* line 49-50: client.connect() returned within the timeout; the worker goes
\* on to line 61 without testing self.running again
ConnectOk(w) ==
    /\ wpc[w] = "connecting"
    /\ ~wcancel[w]
    /\ connected' = TRUE
    /\ QueueGet(w)
    /\ UNCHANGED <<running, worker_task, futVars, wcancel, producerVars,
                   lifeVars>>
    /\ UNCHANGED taskFuncVars

\* faulty variant: the failure of the attempt leaves _process_queue
ConnectFailsEndsWorker(w) ==
    /\ wpc[w] = "connecting"
    /\ ~wcancel[w]
    /\ wpc' = [wpc EXCEPT ![w] = "done"]
    /\ UNCHANGED <<execs, running, worker_task, queue, connected, futVars, wcur,
                   wcancel, producerVars, lifeVars>>
    /\ UNCHANGED taskFuncVars

\* lines 51-53 and 55-57: the attempt timed out or raised; asyncio.sleep(5)
ConnectFails(w) ==
    /\ wpc[w] = "connecting"
    /\ ~wcancel[w]
    /\ wpc' = [wpc EXCEPT ![w] = "sleeping"]
    /\ UNCHANGED <<execs, running, worker_task, queue, connected, futVars, wcur,
                   wcancel, producerVars, lifeVars>>
    /\ UNCHANGED taskFuncVars

\* lines 54 and 58: continue, after the sleep
BackoffDone(w) ==
    /\ wpc[w] = "sleeping"
    /\ ~wcancel[w]
    /\ ProcessQueueLoop(w)
    /\ UNCHANGED <<running, worker_task, connected, futVars, wcancel,
                   producerVars, lifeVars>>
    /\ UNCHANGED taskFuncVars

\* line 61: a worker suspended in queue.get() is resumed with an item
QueueGetResumes(w) ==
    /\ wpc[w] = "getting"
    /\ ~wcancel[w]
    /\ queue # <<>>
    /\ QueueGet(w)
    /\ UNCHANGED <<running, worker_task, connected, futVars, wcancel,
                   producerVars, lifeVars>>
    /\ UNCHANGED taskFuncVars

\* faulty variant: the worker loop ends once a task has been handled
AfterTaskExits(w) ==
    /\ wpc' = [wpc EXCEPT ![w] = "done"]
    /\ wcur' = [wcur EXCEPT ![w] = 0]
    /\ UNCHANGED <<queue, execs>>

\* where the worker goes after the try of lines 62-69: back to the while test
AfterTask(w) == ProcessQueueLoop(w)

\* lines 63-64 and 69: task_func returned
TaskReturns(w) ==
    /\ wpc[w] = "executing"
    /\ ~wcancel[w]
    /\ LET t == wcur[w] IN
         /\ outcome' = [outcome EXCEPT ![t] = "value"]
         /\ fut' = SetResult(fut, t, t)
         /\ setCalls' = [setCalls EXCEPT ![t] = @ + 1]
    /\ AfterTask(w)
    /\ UNCHANGED <<running, worker_task, connected, wcancel, producerVars,
                   lifeVars>>
    /\ UNCHANGED taskFuncVars

\* lines 65-67 and 69: task_func raised an Exception
TaskRaises(w) ==
    /\ wpc[w] = "executing"
    /\ ~wcancel[w]
    /\ LET t == wcur[w] IN
         /\ outcome' = [outcome EXCEPT ![t] = "error"]
         /\ fut' = SetException(fut, t, t)
         /\ setCalls' = [setCalls EXCEPT ![t] = @ + 1]
    /\ AfterTask(w)
    /\ UNCHANGED <<running, worker_task, connected, wcancel, producerVars,
                   lifeVars>>
    /\ UNCHANGED taskFuncVars

\* where CancelledError, thrown into the worker at its suspension point, leaves
\* it. In queue.get() and in task_func it is inside the try of line 60 and line
\* 70-71 breaks; in wait_for and sleep it leaves _process_queue. CancelledError
\* is no Exception, so line 65 does not catch it and the future stays as it is.
\* Either way the worker task is over ("done"), and the await of line 36 ends.
CancelledAt(pc) == "done"

WorkerCancelled(w) ==
    /\ wcancel[w]
    /\ Live(w)
    /\ wpc' = [wpc EXCEPT ![w] = CancelledAt(wpc[w])]
    /\ wcur' = [wcur EXCEPT ![w] = 0]
    /\ wcancel' = [wcancel EXCEPT ![w] = FALSE]
    /\ outcome' = IF wpc[w] = "executing"
                  THEN [outcome EXCEPT ![wcur[w]] = "cancelled"]
                  ELSE outcome
    /\ UNCHANGED <<execs, running, worker_task, queue, connected, fut, setCalls,
                   producerVars, lifeVars>>
    /\ UNCHANGED taskFuncVars

\* the platform session drops (is_connected() turns false)
ConnectionDrops ==
    /\ connected
    /\ connected' = FALSE
    /\ UNCHANGED <<execs, running, worker_task, queue, futVars, workerVars,
                   producerVars, lifeVars>>
    /\ UNCHANGED taskFuncVars

\* ------------------------------------------------------------------- start
\* lines 23-24, after client.start() returned
StartTail(w) ==
    /\ running' = TRUE
    /\ worker_task' = w
    /\ wpc' = [wpc EXCEPT ![w] = "created"]

\* lines 19-20: start() on a running queue returns
StartWhileRunning ==
    /\ spc = "idle"
    /\ ncalls < MaxLifecycleCalls
    /\ running
    /\ ncalls' = ncalls + 1
    /\ lastCall' = "start"
    /\ UNCHANGED <<execs, running, worker_task, queue, connected, futVars, workerVars,
                   producerVars, spc, sawait, stopQueued>>
    /\ UNCHANGED taskFuncVars

\* lines 19-22: start() suspends in client.start()
StartBegin ==
    /\ spc = "idle"
    /\ ncalls < MaxLifecycleCalls
    /\ ~running
    /\ spc' = "starting"
    /\ ncalls' = ncalls + 1
    /\ lastCall' = "start"
    /\ UNCHANGED <<execs, running, worker_task, queue, connected, futVars, workerVars,
                   producerVars, sawait, stopQueued>>
    /\ UNCHANGED taskFuncVars

\* lines 22-25: client.start() returned
StartReturns ==
    /\ spc = "starting"
    /\ connected' = TRUE
    /\ StartTail(FreeWorker)
    /\ spc' = "idle"
    /\ UNCHANGED <<execs, queue, futVars, wcur, wcancel, producerVars, sawait,
                   stopQueued, ncalls, lastCall>>
    /\ UNCHANGED taskFuncVars

\* line 22: client.start() raised
StartRaises ==
    /\ spc = "starting"
    /\ spc' = "idle"
    /\ UNCHANGED <<execs, running, worker_task, queue, connected, futVars, workerVars,
                   producerVars, sawait, stopQueued, ncalls, lastCall>>
    /\ UNCHANGED taskFuncVars

\* ------------------------------------------------------------ _enqueue_task
\* lines 80-82: the future is made and put on the queue; the producer awaits it
PutAndAwait(p) ==
    LET t == NextTask IN
    /\ fut' = [fut EXCEPT ![t] = NewFuture]
    /\ queue' = QueuePut(queue, t)
    /\ ptask' = [ptask EXCEPT ![p] = t]
    /\ ppc' = [ppc EXCEPT ![p] = "awaiting"]

\* producers are interchangeable: they make their calls in index order
MayCall(p) == ppc[p] = "idle" /\ \A o \in Producers : o < p => ppc[o] # "idle"

\* lines 77, 80-82 on a running queue
EnqueueRunning(p) ==
    /\ MayCall(p)
    /\ running
    /\ PutAndAwait(p)
    /\ UNCHANGED <<execs, running, worker_task, connected, setCalls, outcome,
                   workerVars, perr, lifeVars>>
    /\ UNCHANGED taskFuncVars

\* lines 77-78 and 19-22: the queue is not running; the producer suspends in
\* the client.start() of its own start()
EnqueueLazyStart(p) ==
    /\ MayCall(p)
    /\ ~running
    /\ ppc' = [ppc EXCEPT ![p] = "starting"]
    /\ UNCHANGED <<execs, running, worker_task, queue, connected, futVars, workerVars,
                   ptask, perr, lifeVars>>
    /\ UNCHANGED taskFuncVars

\* lines 22-25 and 80-82: client.start() returned to the producer
LazyStartReturns(p) ==
    /\ ppc[p] = "starting"
    /\ connected' = TRUE
    /\ StartTail(FreeWorker)
    /\ PutAndAwait(p)
    /\ UNCHANGED <<execs, setCalls, outcome, wcur, wcancel, perr, lifeVars>>
    /\ UNCHANGED taskFuncVars

\* what a producer's call raises when the client.start() of line 22 raises:
\* nothing between line 22 and the caller catches it
LazyStartError == "connect"

\* lines 22 and 78: client.start() raised
LazyStartRaises(p) ==
    /\ ppc[p] = "starting"
    /\ ppc' = [ppc EXCEPT ![p] = "raised"]
    /\ perr' = [perr EXCEPT ![p] = LazyStartError]
    /\ UNCHANGED <<execs, running, worker_task, queue, connected, futVars, workerVars,
                   ptask, lifeVars>>
    /\ UNCHANGED taskFuncVars

\* line 82: the awaited future is done; the producer returns its result or
\* raises its exception
FutureDone(p) ==
    /\ ppc[p] = "awaiting"
    /\ Resolved(ptask[p])
    /\ ppc' = [ppc EXCEPT ![p] = IF fut[ptask[p]].st = "result"
                                 THEN "returned" ELSE "raised"]
    /\ perr' = [perr EXCEPT ![p] = CASE fut[ptask[p]].st = "result" -> "none"
                                     [] fut[ptask[p]].st = "exception" -> "task"
                                     [] OTHER -> "shutdown"]
    /\ UNCHANGED <<execs, running, worker_task, queue, connected, futVars, workerVars,
                   ptask, lifeVars>>
    /\ UNCHANGED taskFuncVars

\* -------------------------------------------------------------------- stop
\* faulty variant: without the early return stop() goes on to disconnect
StopNotRunningDisconnects ==
    /\ spc = "idle"
    /\ ncalls < MaxLifecycleCalls
    /\ ~running
    /\ ncalls' = ncalls + 1
    /\ lastCall' = "stop"
    /\ connected' = FALSE
    /\ UNCHANGED <<execs, running, worker_task, queue, futVars, workerVars,
                   producerVars, spc, sawait, stopQueued>>
    /\ UNCHANGED taskFuncVars

\* lines 29-30: stop() on a queue that is not running returns
StopNotRunning ==
    /\ spc = "idle"
    /\ ncalls < MaxLifecycleCalls
    /\ ~running
    /\ ncalls' = ncalls + 1
    /\ lastCall' = "stop"
    /\ UNCHANGED <<execs, running, worker_task, queue, connected, futVars, workerVars,
                   producerVars, spc, sawait, stopQueued>>
    /\ UNCHANGED taskFuncVars

\* what stop() does to the futures of the tasks still in the queue: nothing in
\* lines 27-41 touches the queue or a future
StopDrain(f, q) == f

\* lines 29-36: running is cleared, the worker is cancelled and awaited. A
\* worker that is already done is not suspended on: line 40 is next.
StopBegin ==
    /\ spc = "idle"
    /\ ncalls < MaxLifecycleCalls
    /\ running
    /\ running' = FALSE
    /\ ncalls' = ncalls + 1
    /\ lastCall' = "stop"
    /\ stopQueued' = {queue[i] : i \in 1..Len(queue)}
    /\ fut' = StopDrain(fut, queue)
    /\ IF worker_task # 0 /\ ~Finished(worker_task)
       THEN /\ wcancel' = [wcancel EXCEPT ![worker_task] = TRUE]
            /\ sawait' = worker_task
            /\ spc' = "awaiting"
       ELSE /\ spc' = "disconnecting"
            /\ UNCHANGED <<wcancel, sawait>>
    /\ UNCHANGED <<execs, worker_task, queue, connected, setCalls, outcome, wpc, wcur,
                   producerVars>>
    /\ UNCHANGED taskFuncVars

\* lines 36-40: the awaited worker ended; stop() suspends in client.disconnect()
StopJoined ==
    /\ spc = "awaiting"
    /\ Finished(sawait)
    /\ spc' = "disconnecting"
    /\ sawait' = 0
    /\ UNCHANGED <<execs, running, worker_task, queue, connected, futVars, workerVars,
                   producerVars, stopQueued, ncalls, lastCall>>
    /\ UNCHANGED taskFuncVars

\* lines 40-41: client.disconnect() returned, and stop() returns
StopReturns ==
    /\ spc = "disconnecting"
    /\ connected' = FALSE
    /\ spc' = "idle"
    /\ stopQueued' = {}
    /\ UNCHANGED <<execs, running, worker_task, queue, futVars, workerVars,
                   producerVars, sawait, ncalls, lastCall>>
    /\ UNCHANGED taskFuncVars

\* ------------------------------------------------------------ specification
WorkerStep(w) ==
    \/ WorkerFirstRun(w)
    \/ ConnectOk(w)
    \/ ConnectFails(w)
    \/ BackoffDone(w)
    \/ QueueGetResumes(w)
    \/ TaskReturns(w)
    \/ TaskRaises(w)

ProducerStep(p) ==
    \/ EnqueueRunning(p)
    \/ EnqueueLazyStart(p)
    \/ LazyStartReturns(p)
    \/ LazyStartRaises(p)
    \/ FutureDone(p)

\* the application's startup and shutdown calls, one after the other
LifecycleStep ==
    \/ StartWhileRunning
    \/ StartBegin
    \/ StartReturns
    \/ StartRaises
    \/ StopNotRunning
    \/ StopBegin
    \/ StopJoined
    \/ StopReturns

Next ==
    \/ \E w \in Workers : WorkerStep(w)
    \/ \E w \in Workers : WorkerCancelled(w)
    \/ \E p \in Producers : ProducerStep(p)
    \/ LifecycleStep
    \/ ConnectionDrops

Spec == Init /\ [][Next]_vars

\* the service keeps running: nobody calls stop(), so no worker is cancelled
RunningNext ==
    \/ \E w \in Workers : WorkerStep(w)
    \/ \E p \in Producers : ProducerStep(p)
    \/ StartWhileRunning
    \/ StartBegin
    \/ StartReturns
    \/ StartRaises
    \/ ConnectionDrops

\* The event loop runs every ready coroutine (WF); every task_func ends, with a
\* value or an error (WF); a connect attempt made again and again succeeds (SF).
RunningFairness ==
    /\ \A w \in Workers :
         /\ WF_vars(WorkerFirstRun(w))
         /\ WF_vars(BackoffDone(w))
         /\ WF_vars(QueueGetResumes(w))
         /\ WF_vars(TaskReturns(w) \/ TaskRaises(w))
         /\ SF_vars(ConnectOk(w))
    /\ \A p \in Producers : WF_vars(FutureDone(p))

LiveSpec == Init /\ [][RunningNext]_vars /\ RunningFairness

\* --------------------------------------------------- _get_today_messages
MaxMsgs == 3     \* messages client.iter_messages delivers (the code asks for
                 \* at most 100, line 119)
WindowHours == 24

CallTimes == {48, 49}
\* the age of a message at the call, in hours
Ages == {0, 1, 24, 25}
Texts == {None, "", "a"}

\* line 106: cutoff_time = datetime.now(tz=timezone.utc) - timedelta(hours=24)
cutoff_time == now - WindowHours

\* faulty variant: a message dated at the cutoff ends the iteration
TooOldInclusive(m) == m.date <= cutoff_time

\* line 123: if message.date < cutoff_time
TooOld(m) == m.date < cutoff_time

\* faulty variant: only an absent text is skipped
NoTextOnlyNone(text) == text = None

\* line 127: if message_text is None or message_text == ""
NoText(text) == text = None \/ text = ""

\* line 130: {"id": message.id, "text": message_text}
Item(m) == [id |-> m.id, text |-> m.text]

\* The call: lines 101-117 up to the first await of the async for. The feed is
\* any sequence of messages, newest first or not, with distinct ids.
FetchInit ==
    /\ QueueInit
    /\ ChannelIdle
    /\ now \in CallTimes
    /\ \E n \in 0..MaxMsgs :
         \E age \in [1..n -> Ages], text \in [1..n -> Texts] :
            feed = [i \in 1..n |->
                      [id |-> n - i + 1, date |-> now - age[i], text |-> text[i]]]
    /\ fpos = 0
    /\ messages = <<>>
    /\ fpc = "iterating"

\* lines 123-124: the next message is too old: break, then return at line 132
FetchBreak ==
    /\ fpc = "iterating"
    /\ fpos < Len(feed)
    /\ TooOld(feed[fpos + 1])
    /\ fpos' = fpos + 1
    /\ fpc' = "returned"
    /\ UNCHANGED <<now, feed, messages>>
    /\ UNCHANGED <<vars, channelVars>>

\* lines 126-128: the next message has no text: continue
FetchSkip ==
    /\ fpc = "iterating"
    /\ fpos < Len(feed)
    /\ ~TooOld(feed[fpos + 1])
    /\ NoText(feed[fpos + 1].text)
    /\ fpos' = fpos + 1
    /\ UNCHANGED <<now, feed, messages, fpc>>
    /\ UNCHANGED <<vars, channelVars>>

\* line 130: the next message is appended
FetchAppend ==
    /\ fpc = "iterating"
    /\ fpos < Len(feed)
    /\ ~TooOld(feed[fpos + 1])
    /\ ~NoText(feed[fpos + 1].text)
    /\ fpos' = fpos + 1
    /\ messages' = Append(messages, Item(feed[fpos + 1]))
    /\ UNCHANGED <<now, feed, fpc>>
    /\ UNCHANGED <<vars, channelVars>>

\* line 132: the iteration is exhausted: return messages
FetchExhausted ==
    /\ fpc = "iterating"
    /\ fpos = Len(feed)
    /\ fpc' = "returned"
    /\ UNCHANGED <<now, feed, fpos, messages>>
    /\ UNCHANGED <<vars, channelVars>>

\* lines 133-135: the request for the next messages raises; it is logged and
\* raised again, nothing is returned
FetchRaises ==
    /\ fpc = "iterating"
    /\ fpc' = "raised"
    /\ UNCHANGED <<now, feed, fpos, messages>>
    /\ UNCHANGED <<vars, channelVars>>

FetchNext ==
    \/ FetchBreak
    \/ FetchSkip
    \/ FetchAppend
    \/ FetchExhausted
    \/ FetchRaises

FetchSpec == FetchInit /\ [][FetchNext]_fetchVars

\* ------------------------------------------------------- _get_channel_id
MaxRawId == 130  \* raw entity ids 1..MaxRawId, and RawIdSamples

\* longer ids; "-100" written before them stays within TLC's integers
RawIdSamples == {1000, 99999, 1234567}
RawIds == (1..MaxRawId) \cup RawIdSamples
Usernames == {None, "durov"}

DigitChars == <<"0", "1", "2", "3", "4", "5", "6", "7", "8", "9">>
DigitValue(c) == CHOOSE d \in 0..9 : DigitChars[d + 1] = c

\* str(n) for n >= 0, as the f-string of line 150 formats channel_id
RECURSIVE Str(_)
Str(n) ==
    IF n < 10 THEN <<DigitChars[n + 1]>>
    ELSE Str(n \div 10) \o <<DigitChars[(n % 10) + 1]>>

\* the value of a sequence of decimal digits
RECURSIVE DigitsValue(_)
DigitsValue(s) ==
    IF s = <<>> THEN 0
    ELSE 10 * DigitsValue(SubSeq(s, 1, Len(s) - 1)) + DigitValue(s[Len(s)])

\* int(text) of line 150, for a text that is an optional "-" and digits
ParseInt(s) == IF Head(s) = "-" THEN 0 - DigitsValue(Tail(s)) ELSE DigitsValue(s)

\* faulty variant: only broadcast channels are recognised
HasChannelAttrBroadcastOnly(e) == "broadcast" \in e.attrs

\* line 148: hasattr(entity, "megagroup") or hasattr(entity, "broadcast")
HasChannelAttr(e) == "megagroup" \in e.attrs \/ "broadcast" \in e.attrs

\* faulty variant: the prefix is added as a number, for ids of three digits
PrefixedIdFixedWidth(n) == 0 - (100000 + n)

\* line 150: int(f"-100{channel_id}")
PrefixedId(n) == ParseInt(<<"-", "1", "0", "0">> \o Str(n))

\* The call: lines 140-143 up to the await of client.get_entity. The entity
\* has an id, a username (possibly None) and the attributes of its type.
ChannelInit ==
    /\ QueueInit
    /\ FetchIdle
    /\ entity \in [id : RawIds, username : Usernames,
                   attrs : SUBSET {"megagroup", "broadcast"}]
    /\ cresult = NoResult
    /\ cpc = "resolving"

\* lines 143-153: get_entity returned
ChannelReturns ==
    /\ cpc = "resolving"
    /\ cresult' = [channel_id |-> IF HasChannelAttr(entity)
                                  THEN PrefixedId(entity.id)
                                  ELSE entity.id,
                   username |-> entity.username]
    /\ cpc' = "returned"
    /\ UNCHANGED entity
    /\ UNCHANGED <<vars, fetchVars>>

\* lines 155-157: get_entity raised; the error is logged and raised again
ChannelRaises ==
    /\ cpc = "resolving"
    /\ cpc' = "raised"
    /\ UNCHANGED <<entity, cresult>>
    /\ UNCHANGED <<vars, fetchVars>>

ChannelNext ==
    \/ ChannelReturns
    \/ ChannelRaises

ChannelSpec == ChannelInit /\ [][ChannelNext]_channelVars

\* ------------------------------------------------------------------ claims
Executing == {w \in Workers : wpc[w] = "executing"}

\* the calls of client.start() and client.connect() that have not returned
ConnectAttempts ==
    Cardinality({p \in Producers : ppc[p] = "starting"})
    + Cardinality({w \in Workers : wpc[w] = "connecting"})
    + (IF spc = "starting" THEN 1 ELSE 0)

\* the worker loops that exist and have not been told to end
WorkerLoops == {w \in Workers : Live(w) /\ ~wcancel[w]}

\* C1: at most one task is executing against the client in every reachable
\* state, whatever the producers do, lazy starts included.
C1_Serialization == Cardinality(Executing) <= 1

\* C2: futures are resolved in queue.put order: no task is resolved while a
\* task put before it is still unresolved.
C2_Fifo ==
    \A i \in Tasks : \A j \in Tasks : (i < j /\ Resolved(j)) => Resolved(i)

\* C3: when stop() returns, every task that sat in the queue when stop() was
\* called has left the queue and has its future resolved with a shutdown error.
C3_ShutdownDraining ==
    [][(spc = "disconnecting" /\ spc' = "idle") =>
         \A t \in stopQueued :
            /\ fut'[t].st = "shutdown"
            /\ \A i \in 1..Len(queue') : queue'[i] # t]_vars

\* C4: a task that is executing when stop() is called is not aborted: no
\* execution of task_func ends by cancellation and leaves its future as it was.
C4_InFlightCompletes == \A t \in Tasks : outcome[t] # "cancelled"

\* C5: while the service keeps running, every enqueued task's future is
\* eventually resolved, and the producer awaiting it eventually returns or
\* raises.
C5_EventualResolution ==
    /\ \A t \in Tasks :
         (fut[t].st = "pending") ~> (fut[t].st \in {"result", "exception"})
    /\ \A p \in Producers :
         (ppc[p] = "awaiting") ~> (ppc[p] \in {"returned", "raised"})

C5_Witness ==
    \E p \in Producers : \E o \in Producers :
        /\ p # o
        /\ ppc[p] = "returned"
        /\ ppc[o] = "raised" /\ perr[o] = "task"

\* C6: set_result / set_exception is called at most once per future, and a
\* future is resolved exactly when that one call was made, with the outcome of
\* that call.
C6_SingleAssignment ==
    \A t \in Tasks :
        /\ setCalls[t] <= 1
        /\ (fut[t].st \in {"result", "exception"}) <=> (setCalls[t] = 1)
        /\ (fut[t].st = "result") <=> (outcome[t] = "value")
        /\ (fut[t].st = "exception") <=> (outcome[t] = "error")

C6_Witness ==
    /\ \E t \in Tasks : fut[t].st = "result"
    /\ \E t \in Tasks : fut[t].st = "exception"
    /\ ncalls = MaxLifecycleCalls
    /\ ~running

\* C7: when a task's execution raises, that task's future gets that error, no
\* other future changes, the worker does not end because of it, and with the
\* queue running and connected the worker goes straight on to the next task.
C7_FaultIsolation ==
    [][\A w \in Workers :
         (wpc[w] = "executing" /\ outcome[wcur[w]] = "none"
            /\ outcome'[wcur[w]] = "error") =>
         /\ fut'[wcur[w]] = [st |-> "exception", by |-> wcur[w]]
         /\ \A u \in Tasks \ {wcur[w]} : fut'[u] = fut[u]
         /\ running => wpc'[w] # "done"
         /\ (running /\ connected /\ queue # <<>>) =>
              /\ wpc'[w] = "executing"
              /\ wcur'[w] = Head(queue)
              /\ queue' = Tail(queue)
         /\ queue = <<>> => queue' = <<>>]_vars

\* the only worker there is handled task 1, which raised, and now runs task 2
C7_Witness ==
    /\ \A w \in Workers \ {1} : wpc[w] = "none"
    /\ outcome[1] = "error"
    /\ fut[2].st = "pending"
    /\ wpc[1] = "executing"
    /\ wcur[1] = 2

\* C8: no facade call raises because a connection attempt failed.
C8_ConnectFailureNotSurfaced == \A p \in Producers : perr[p] # "connect"

\* C9: however start() is called, at most one worker loop exists.
C9_StartIdempotent == Cardinality(WorkerLoops) <= 1

\* C10: at most one connection attempt is in flight at any time.
C10_OneConnectAttempt == ConnectAttempts <= 1

\* C11: when stop() returns, the running flag is false, no worker loop is left
\* and the client is disconnected, whatever the producers did meanwhile.
C11_StopLeavesStopped ==
    [][(spc = "disconnecting" /\ spc' = "idle") =>
         /\ ~running'
         /\ ~connected'
         /\ \A w \in Workers : wpc'[w] \in {"none", "done"}]_vars

\* C12: a resolved future holds the outcome of its own task's execution, and a
\* producer that has returned or raised got the outcome of the task it put.
C12_ResultRouting ==
    /\ \A t \in Tasks :
         fut[t].st \in {"result", "exception"} => fut[t].by = t
    /\ \A p \in Producers :
         /\ ppc[p] = "returned" =>
              fut[ptask[p]] = [st |-> "result", by |-> ptask[p]]
         /\ (ppc[p] = "raised" /\ perr[p] = "task") =>
              fut[ptask[p]] = [st |-> "exception", by |-> ptask[p]]

\* two workers ran the two tasks at the same time; each producer has its own
C12_Witness ==
    /\ ppc[1] = "returned" /\ ppc[2] = "raised" /\ perr[2] = "task"
    /\ ptask[1] # ptask[2]
    /\ Cardinality({w \in Workers : wpc[w] # "none"}) >= 2

\* the place in the feed of the message with this id, and its date
FeedIndex(id) == CHOOSE i \in 1..Len(feed) : feed[i].id = id
DateOf(id) == feed[FeedIndex(id)].date
InResult(i) == \E k \in 1..Len(messages) : messages[k].id = feed[i].id

\* C13 as stated: a message dated exactly at the cutoff is never in the result
\* and the iteration does not go past it; every message in the result is
\* strictly newer than the cutoff.
C13_CutoffExcluded ==
    /\ \A k \in 1..Len(messages) : DateOf(messages[k].id) > cutoff_time
    /\ \A i \in 1..Len(feed) : feed[i].date = cutoff_time => fpos <= i

\* C13, amended: a message dated exactly at the cutoff is not too old: the
\* iteration goes on past it and, when it has a text and no strictly older
\* message precedes it, it is in the returned result. The iteration stops at
\* the first message strictly older than the cutoff, and every message in the
\* result is dated at the cutoff or later.
C13_CutoffIncluded ==
    /\ \A k \in 1..Len(messages) : DateOf(messages[k].id) >= cutoff_time
    /\ \A i \in 1..Len(feed) : feed[i].date < cutoff_time => fpos <= i
    /\ fpc = "returned" =>
         \A i \in 1..Len(feed) :
            ( /\ feed[i].date = cutoff_time
              /\ feed[i].text \notin {None, ""}
              /\ \A j \in 1..i : feed[j].date >= cutoff_time )
            => (fpos > i \/ fpos = Len(feed)) /\ InResult(i)

\* the call returned; a message dated exactly at the cutoff is in the result
\* and the iteration went on to a strictly older one, where it stopped
C13_Witness ==
    /\ fpc = "returned"
    /\ \E i \in 1..Len(feed) :
         /\ feed[i].date = cutoff_time
         /\ InResult(i)
         /\ fpos = i + 1
         /\ feed[i + 1].date < cutoff_time

\* the first message of the feed older than the cutoff (Len + 1: there is none)
FirstOlder ==
    IF \E i \in 1..Len(feed) : feed[i].date < now - WindowHours
    THEN CHOOSE i \in 1..Len(feed) :
            /\ feed[i].date < now - WindowHours
            /\ \A j \in 1..(i - 1) : feed[j].date >= now - WindowHours
    ELSE Len(feed) + 1

HasText(m) == m.text # None /\ m.text # ""

\* the messages before the first older one that have a text, in feed order
ExpectedMessages ==
    LET window == SubSeq(feed, 1, FirstOlder - 1)
        kept == SelectSeq(window, HasText)
    IN [k \in 1..Len(kept) |-> [id |-> kept[k].id, text |-> kept[k].text]]

\* C14: the returned list is, in the same order, the messages of the longest
\* prefix of the feed before the first message older than the cutoff, without
\* those whose text is absent or ""; and at no time does the list hold a
\* message from the first older one on.
C14_WindowAndFiltering ==
    /\ fpc = "returned" => messages = ExpectedMessages
    /\ \A k \in 1..Len(messages) : FeedIndex(messages[k].id) < FirstOlder

\* the call returned for messages dated now, now-1h, now-25h, all with text:
\* exactly the first two are in the result, in that order
C14_Witness ==
    /\ fpc = "returned"
    /\ Len(feed) = 3
    /\ feed[1].date = now /\ feed[2].date = now - 1 /\ feed[3].date = now - 25
    /\ \A i \in 1..3 : HasText(feed[i])
    /\ messages = <<Item(feed[1]), Item(feed[2])>>

\* the power of ten above n: 10 for 1..9, 100 for 10..99, ...
RECURSIVE PowerOfTenAbove(_)
PowerOfTenAbove(n) == IF n < 10 THEN 10 ELSE 10 * PowerOfTenAbove(n \div 10)

\* C15: for an entity with positive raw id n, the returned id is the integer
\* written "-100" followed by the decimal digits of n when the entity is a
\* broadcast channel or supergroup, and n itself when it is not; the username
\* is returned as the entity has it.
C15_ChannelIdNormalization ==
    cpc = "returned" =>
        /\ cresult.username = entity.username
        /\ IF entity.attrs # {}
           THEN cresult.channel_id =
                   0 - (100 * PowerOfTenAbove(entity.id) + entity.id)
           ELSE cresult.channel_id = entity.id

\* the call returned -100123 for the supergroup with raw id 123
C15_Witness ==
    /\ cpc = "returned"
    /\ entity.id = 123
    /\ "megagroup" \in entity.attrs
    /\ cresult.channel_id = 0 - 100123

\* C16: stop() on a queue that is not running changes nothing of the queue:
\* not the flag, the worker task, the queue, the futures, nor the connection.
C16_StopNotRunningNoop ==
    [][(spc = "idle" /\ ~running /\ ncalls' # ncalls /\ lastCall' = "stop") =>
         UNCHANGED <<running, worker_task, queue, connected, futVars,
                     workerVars, producerVars, spc, sawait, execs>>]_vars

\* stop() was called on a queue that was never started
C16_Witness ==
    /\ lastCall = "stop"
    /\ spc = "idle"
    /\ ncalls = MaxLifecycleCalls
    /\ worker_task = 0
    /\ \E p \in Producers : ppc[p] = "starting"

\* C17: a worker that finds the client not connected attempts to connect before
\* anything else; a failed attempt takes nothing from the queue and does not
\* end the worker, which after the backoff is back at the probe.
C17_ReconnectLoop ==
    [][\A w \in Workers :
         /\ (wpc[w] \in {"created", "sleeping", "executing"} /\ ~wcancel[w]
               /\ (wpc'[w] # wpc[w] \/ wcur'[w] # wcur[w])
               /\ running /\ ~connected) =>
              (wpc'[w] = "connecting" /\ queue' = queue /\ execs' = execs)
         /\ (wpc[w] = "connecting" /\ wpc'[w] # wpc[w] /\ ~wcancel[w]) =>
              \/ wpc'[w] = "sleeping" /\ queue' = queue /\ execs' = execs
              \/ connected' /\ wpc'[w] \in {"getting", "executing"}
         /\ (wpc[w] = "sleeping" /\ wpc'[w] # wpc[w] /\ ~wcancel[w]
               /\ running) =>
              wpc'[w] \in {"connecting", "getting", "executing"}]_vars

\* a worker is in the backoff after a failed attempt, with a task in the queue
C17_Witness ==
    \E w \in Workers :
        /\ wpc[w] = "sleeping"
        /\ running /\ ~connected
        /\ queue # <<>>

\* C18: whenever a worker begins to execute a task, the client is connected.
C18_ConnectedWhenTaskStarts ==
    [][\A w \in Workers :
         (wpc'[w] = "executing" /\ wcur'[w] # wcur[w]) => connected']_vars

\* C19: no task is executed more than once, and none that was never put.
C19_AtMostOnce ==
    \A t \in Tasks :
        /\ execs[t] <= 1
        /\ execs[t] >= 1 => fut[t].st # "none"

\* a task put after a stop() is being executed by the worker of a later start
C19_Witness ==
    /\ lastCall = "stop" /\ spc = "idle" /\ running
    /\ \E w \in Workers : \E t \in Tasks :
         /\ wpc[w] = "executing" /\ wcur[w] = t
         /\ t \notin stopQueued
         /\ \E v \in Workers : v < w /\ wpc[v] = "done"

\* C20: while stop() is in client.disconnect(), no worker is executing a task.
C20_DisconnectNotDuringTask == (spc = "disconnecting") => (Executing = {})

====
